---------------------------- MODULE Spec2Model ----------------------------
(***************************************************************************)
(* Ingestion pipeline of the basketball box-score system: the retrying     *)
(* fetcher (get_html_with_retry), the game record assembler                *)
(* (_parse_basic_game_info and the per-section parsers), the store         *)
(* (save_game_to_database / save_comprehensive_game_data over the four     *)
(* tables of models.py) and the bulk loops that drive them.                *)
(*                                                                         *)
(* Representation choices                                                  *)
(*   - a Python dict is a TLA+ record; DOMAIN d is its key set;            *)
(*   - a cell text is a string; int(text) is the lookup IntOf, defined     *)
(*     only on the texts int() accepts;                                    *)
(*   - a float is the integer number of thousandths (0.0 is 0);            *)
(*   - an optional value is a sequence: << >> is None, <<v>> is v;         *)
(*   - a game id is the sequence of its characters.                        *)
(***************************************************************************)
EXTENDS Integers, Sequences, FiniteSets, TLC

(***************************************************************************)
(* Bounds of the model                                                     *)
(***************************************************************************)
MaxUnits == 2
MaxRetriesArg == 4
MaxRows == 3
MaxUpdates == 3
MaxLinks == 4

(***************************************************************************)
(* Program constants                                                       *)
(***************************************************************************)
MAX_RETRIES == 3
REQUEST_DELAY == 1

None == << >>
Some(v) == <<v>>

Workers == {"w1", "w2"}

RECURSIVE SeqToSet(_)
SeqToSet(s) == IF s = << >> THEN {} ELSE {Head(s)} \cup SeqToSet(Tail(s))

(***************************************************************************)
(* Cell texts and int()                                                    *)
(***************************************************************************)
IntOf == [t \in {"0", "1", "2", "3", "5", "8", "10", "25", "99", "101", "240"} |->
            CASE t = "0" -> 0 [] t = "1" -> 1 [] t = "2" -> 2 [] t = "3" -> 3
              [] t = "5" -> 5 [] t = "8" -> 8 [] t = "10" -> 10
              [] t = "25" -> 25 [] t = "99" -> 99 [] t = "101" -> 101
              [] t = "240" -> 240]

IsIntText(t) == t \in DOMAIN IntOf

(***************************************************************************)
(* Game ids: the characters of the file stem / URL stem                    *)
(***************************************************************************)
G1 == <<"2","0","2","3","1","0","2","4","0","B","O","S">>
G2 == <<"2","0","2","3","0","6","1","5","0","D","E","N">>
GameIds == {G1, G2}

DigitVal == [c \in {"0","1","2","3","4","5","6","7","8","9"} |->
               CASE c = "0" -> 0 [] c = "1" -> 1 [] c = "2" -> 2 [] c = "3" -> 3
                 [] c = "4" -> 4 [] c = "5" -> 5 [] c = "6" -> 6 [] c = "7" -> 7
                 [] c = "8" -> 8 [] c = "9" -> 9]

IsDigit(c) == c \in DOMAIN DigitVal

Num(s, a, b) == LET RECURSIVE go(_, _)
                    go(i, acc) == IF i > b THEN acc
                                  ELSE go(i + 1, 10 * acc + DigitVal[s[i]])
                IN go(a, 0)

IsLeap(y) == (y % 4 = 0 /\ y % 100 # 0) \/ y % 400 = 0

DaysIn(y, m) == CASE m \in {1, 3, 5, 7, 8, 10, 12} -> 31
                  [] m \in {4, 6, 9, 11} -> 30
                  [] OTHER -> IF IsLeap(y) THEN 29 ELSE 28

ValidDate(y, m, d) == y >= 1 /\ m \in 1..12 /\ d \in 1..DaysIn(y, m)

\* season = year, minus one when the month is before July
SeasonOf(date) == IF date[2] < 7 THEN date[1] - 1 ELSE date[1]

(***************************************************************************)
(* Documents.  A table is [present, rows]; a row is [cls, cells] where cls *)
(* is the class of the <tr> and cells the texts of its td/th elements.     *)
(* A document is                                                           *)
(*   [game_id, line_score, basic, advanced, officials, scorebox, now]      *)
(* with basic/advanced records over {"home","away"}, officials None (no    *)
(* 'Officials:' element) or Some(sequence of [name, href] links), scorebox *)
(* None or Some(date) for the date text of the scorebox, and now the       *)
(* calendar date at which the document is parsed.                          *)
(***************************************************************************)
AbsentTable == [present |-> FALSE, rows |-> << >>]
Table(rs) == [present |-> TRUE, rows |-> rs]
Row(cs) == [cls |-> "", cells |-> cs]

Sides == <<"home", "away">>

\* for selector in ["tr.over_header", "tr.thead"]: element.decompose()
Decompose(t) ==
    [t EXCEPT !.rows = SelectSeq(t.rows, LAMBDA r : r.cls \notin {"over_header", "thead"})]

DecomposeDoc(doc) ==
    [doc EXCEPT !.line_score = Decompose(@),
                !.basic = [s \in DOMAIN @ |-> Decompose(@[s])],
                !.advanced = [s \in DOMAIN @ |-> Decompose(@[s])]]

\* rows[1:]
Rest(rows) == IF rows = << >> THEN << >> ELSE Tail(rows)

\* rows[1:-1]
Middle(rows) == IF Len(rows) < 3 THEN << >> ELSE SubSeq(rows, 2, Len(rows) - 1)

(***************************************************************************)
(* _safe_int / _safe_float.  has_get_text tells whether the argument is a  *)
(* cell element (True) or an already extracted str, on which               *)
(* cell.get_text raises AttributeError and the default is returned.        *)
(***************************************************************************)
FracOf == [t \in {".456", ".500", "1.000"} |->
             CASE t = ".456" -> 456 [] t = ".500" -> 500 [] t = "1.000" -> 1000]

IsFloatText(t) == t \in DOMAIN IntOf \/ t \in DOMAIN FracOf

FloatOf(t) == IF t \in DOMAIN IntOf THEN 1000 * IntOf[t] ELSE FracOf[t]

SafeInt(text, has_get_text) ==
    IF ~has_get_text THEN 0
    ELSE IF text # "" /\ IsIntText(text) THEN IntOf[text] ELSE 0

SafeFloat(text, has_get_text) ==
    IF ~has_get_text THEN 0
    ELSE IF text # "" /\ IsFloatText(text) THEN FloatOf(text) ELSE 0

(***************************************************************************)
(* Line score: the part of _parse_basic_game_info shared by the three      *)
(* assemblers.                                                             *)
(***************************************************************************)
\* the rows of the loop that reach teams.append / scores.append
LineRows(rows) == SelectSeq(rows, LAMBDA r : Len(r.cells) >= 2)

\* int(cells[-1]) raises ValueError on some row
LineRaises(rows) == \E i \in 1..Len(LineRows(rows)) :
                       ~IsIntText(LineRows(rows)[i].cells[Len(LineRows(rows)[i].cells)])

\* variant: with more than two team rows the first two are taken
LineScoreInfo_FirstTwoTeams(line_score) ==
    LET rows == Rest(line_score.rows)
        lr == LineRows(rows)
    IN  IF ~line_score.present THEN None
        ELSE IF Len(rows) < 2 THEN None
        ELSE IF LineRaises(rows) THEN None
        ELSE IF Len(lr) < 2 THEN None
        ELSE LET away_team == lr[1].cells[1]
                 home_team == lr[2].cells[1]
                 away_score == IntOf[lr[1].cells[Len(lr[1].cells)]]
                 home_score == IntOf[lr[2].cells[Len(lr[2].cells)]]
             IN Some([home_team |-> home_team, away_team |-> away_team,
                      home_score |-> home_score, away_score |-> away_score,
                      home_won |-> home_score > away_score])

\* the line-score part of the result: None, or Some of the five fields
LineScoreInfo(line_score) ==
    LET rows == Rest(line_score.rows)
        lr == LineRows(rows)
    IN  IF ~line_score.present THEN None
        ELSE IF Len(rows) < 2 THEN None
        ELSE IF LineRaises(rows) THEN None
        ELSE IF Len(lr) # 2 THEN None
        ELSE LET away_team == lr[1].cells[1]
                 home_team == lr[2].cells[1]
                 away_score == IntOf[lr[1].cells[Len(lr[1].cells)]]
                 home_score == IntOf[lr[2].cells[Len(lr[2].cells)]]
             IN Some([home_team |-> home_team, away_team |-> away_team,
                      home_score |-> home_score, away_score |-> away_score,
                      home_won |-> home_score > away_score])

(***************************************************************************)
(* The date of the game, per assembler                                     *)
(***************************************************************************)
\* datetime.strptime(game_id[:8], "%Y%m%d"): None when it raises
DateFromStem(game_id) ==
    IF Len(game_id) < 8 \/ \E i \in 1..8 : ~IsDigit(game_id[i]) THEN None
    ELSE LET y == Num(game_id, 1, 4)
             m == Num(game_id, 5, 6)
             d == Num(game_id, 7, 8)
         IN IF ValidDate(y, m, d) THEN Some(<<y, m, d>>) ELSE None

\* variant: the format string reads the day before the month
ParseDateFromFilename_DayBeforeMonth(filename) ==
    IF Len(filename) < 8 \/ \E i \in 1..8 : ~IsDigit(filename[i]) THEN None
    ELSE LET y == Num(filename, 1, 4)
             d == Num(filename, 5, 6)
             m == Num(filename, 7, 8)
         IN IF ValidDate(y, m, d) THEN Some(<<y, m, d>>) ELSE None

\* parse_date_from_filename: strptime(filename[:8], "%Y%m%d"); None stands
\* for the ValueError it raises
ParseDateFromFilename(filename) == DateFromStem(filename)

IsUpper(c) == c \in {"A", "B", "C", "D", "E", "F", "G", "H", "I", "J", "K", "L", "M", "N",
                     "O", "P", "Q", "R", "S", "T", "U", "V", "W", "X", "Y", "Z"}

\* a URL is the sequence of its characters, with ".html" and the words of
\* the host and the directories as single elements
UrlOf(stem) == <<"https:", "/", "/", "www.basketball-reference.com", "/", "boxscores", "/">>
                 \o stem \o <<".html">>

\* the positions at which r'/(\d{9}[A-Z]{3})\.html' matches
IdMatches(url) ==
    {i \in 1..(Len(url) - 13) :
        /\ url[i] = "/"
        /\ \A j \in (i + 1)..(i + 9) : IsDigit(url[j])
        /\ \A j \in (i + 10)..(i + 12) : IsUpper(url[j])
        /\ url[i + 13] = ".html"}

\* url.split('/')[-1].replace('.html', '')
LastSegment(url) ==
    LET slashes == {i \in 1..Len(url) : url[i] = "/"}
        from == IF slashes = {} THEN 1
                ELSE 1 + CHOOSE i \in slashes : \A k \in slashes : k <= i
    IN SelectSeq(SubSeq(url, from, Len(url)), LAMBDA c : c # ".html")

\* parse_game_id: group 1 of the leftmost match, else the last segment
ParseGameId(url) ==
    IF IdMatches(url) # {}
    THEN LET i == CHOOSE m \in IdMatches(url) : \A k \in IdMatches(url) : m <= k
         IN SubSeq(url, i + 1, i + 12)
    ELSE LastSegment(url)

\* scraper.py: the date of the scorebox text, else today's date;
\* strptime("%Y-%m-%d") raises on a date that does not exist
DateFromScorebox(doc) ==
    LET date == IF doc.scorebox # None THEN doc.scorebox[1] ELSE doc.now
    IN IF ValidDate(date[1], date[2], date[3]) THEN Some(date) ELSE None

\* first index at which eight consecutive digits start, 0 if none
FirstDigits8(game_id) ==
    LET starts == {i \in 1..(Len(game_id) - 7) : \A j \in i..(i + 7) : IsDigit(game_id[j])}
    IN IF starts = {} THEN 0 ELSE CHOOSE i \in starts : \A k \in starts : i <= k

\* enhanced_scraper.py: re.search(r'(\d{4})(\d{2})(\d{2})', game_id), else now
DateFromIdDigits(doc) ==
    LET i == FirstDigits8(doc.game_id)
    IN IF i = 0 THEN Some(doc.now)
       ELSE LET y == Num(doc.game_id, i, i + 3)
                m == Num(doc.game_id, i + 4, i + 5)
                d == Num(doc.game_id, i + 6, i + 7)
            IN IF ValidDate(y, m, d) THEN Some(<<y, m, d>>) ELSE None

GameInfo(game_id, date, ls) ==
    [game_id |-> game_id, date |-> date, season |-> SeasonOf(date),
     home_team |-> ls.home_team, away_team |-> ls.away_team,
     home_score |-> ls.home_score, away_score |-> ls.away_score,
     home_won |-> ls.home_won]

\* _parse_basic_game_info of DataProcessor ("files"), BasketballScraper
\* ("scrape") and EnhancedBasketballScraper ("recent"): None or Some(dict)
ParseBasicGameInfo(doc, kind) ==
    LET ls == LineScoreInfo(doc.line_score)
        date == CASE kind = "files" -> DateFromStem(doc.game_id)
                  [] kind = "scrape" -> DateFromScorebox(doc)
                  [] OTHER -> DateFromIdDigits(doc)
    IN IF ls = None \/ date = None THEN None
       ELSE Some(GameInfo(doc.game_id, date[1], ls[1]))

(***************************************************************************)
(* _parse_stats_table                                                      *)
(***************************************************************************)
BasicMapping == <<"mp", "fg", "fga", "fg_pct", "fg3", "fg3a", "fg3_pct", "ft", "fta",
                  "ft_pct", "orb", "drb", "trb", "ast", "stl", "blk", "tov", "pf", "pts">>

BasicMaxNames == <<"mp_max", "fg_max", "fga_max", "fg_pct_max", "fg3_max", "fg3a_max",
                   "fg3_pct_max", "ft_max", "fta_max", "ft_pct_max", "orb_max", "drb_max",
                   "trb_max", "ast_max", "stl_max", "blk_max", "tov_max", "pf_max", "pts_max">>

AdvancedMapping == <<"ts_pct", "efg_pct", "fg3a_rate", "fta_rate", "orb_pct", "drb_pct",
                     "trb_pct", "ast_pct", "stl_pct", "blk_pct", "tov_pct", "usg_pct",
                     "off_rtg", "def_rtg", "bpm">>

\* 'pct' in stat_name
HasPct(name) == name \in {"fg_pct", "fg3_pct", "ft_pct", "ts_pct", "efg_pct", "orb_pct",
                          "drb_pct", "trb_pct", "ast_pct", "stl_pct", "blk_pct",
                          "tov_pct", "usg_pct"}

EmptyDict == << >>

Max(a, b) == IF a >= b THEN a ELSE b

\* the offsets i of enumerate(cells[1:], 1) that are in stat_mapping
MappedOffsets(cells, mapping) == {i \in 1..(Len(cells) - 1) : i <= Len(mapping)}

\* the totals loop: value is the str cell.get_text(strip=True), and it is
\* the str that is handed to _safe_int / _safe_float
TotalsStats(cells, stat_type) ==
    LET mapping == IF stat_type = "basic" THEN BasicMapping ELSE AdvancedMapping
        offs == MappedOffsets(cells, mapping)
    IN [name \in {mapping[i] : i \in offs} |->
          LET i == CHOOSE k \in offs : mapping[k] = name
              value == cells[i + 1]
          IN IF stat_type = "basic" /\ ~HasPct(name)
             THEN SafeInt(value, FALSE) ELSE SafeFloat(value, FALSE)]

\* the _max loop over rows[1:-1], folded row by row from the stats so far
RECURSIVE MaxStats(_, _)
MaxStats(rows, stats) ==
    IF rows = << >> THEN stats
    ELSE LET cells == Head(rows).cells
             offs == MappedOffsets(cells, BasicMapping)
             step == [name \in {BasicMaxNames[j] : j \in offs} |->
                        LET j == CHOOSE k \in offs : BasicMaxNames[k] = name
                            value == cells[j + 1]
                            current_max == IF name \in DOMAIN stats THEN stats[name] ELSE 0
                            new_value == IF HasPct(BasicMapping[j])
                                         THEN SafeFloat(value, FALSE)
                                         ELSE SafeInt(value, FALSE)
                        IN Max(current_max, new_value)]
         IN MaxStats(Tail(rows), step @@ stats)

ParseStatsTable(table, stat_type) ==
    IF ~table.present \/ table.rows = << >> THEN EmptyDict
    ELSE LET totals == TotalsStats(table.rows[Len(table.rows)].cells, stat_type)
         IN IF stat_type = "basic" THEN MaxStats(Middle(table.rows), totals)
            ELSE totals

(***************************************************************************)
(* _parse_team_stats                                                       *)
(***************************************************************************)
TeamStat(doc, team) ==
    LET basic_stats == ParseStatsTable(doc.basic[team], "basic")
        advanced_stats == IF doc.advanced[team].present
                          THEN ParseStatsTable(doc.advanced[team], "advanced")
                          ELSE EmptyDict
    IN advanced_stats @@ basic_stats @@
       [game_id |-> doc.game_id, team |-> team, is_home |-> (team = "home")]

ParseTeamStats(doc) ==
    LET present == SelectSeq(Sides, LAMBDA t : doc.basic[t].present)
    IN [i \in 1..Len(present) |-> TeamStat(doc, present[i])]

(***************************************************************************)
(* _parse_player_row / _parse_player_stats                                 *)
(***************************************************************************)
PlayerCols == <<"mp", "fg", "fga", "fg_pct", "fg3", "fg3a", "fg3_pct", "ft", "fta",
                "ft_pct", "orb", "drb", "trb", "ast", "stl", "blk", "tov", "pf", "pts",
                "plus_minus">>

\* the mapping part of _parse_player_row: cells[k] for the k-th column,
\* or the default when the row is shorter
PlayerRowStats(cells, game_id, team) ==
    [name \in SeqToSet(PlayerCols) |->
        LET k == CHOOSE i \in 1..Len(PlayerCols) : PlayerCols[i] = name
        IN IF name = "mp" THEN (IF Len(cells) > k THEN cells[k + 1] ELSE "0")
           ELSE IF Len(cells) > k
                THEN (IF HasPct(name) THEN SafeFloat(cells[k + 1], TRUE)
                      ELSE SafeInt(cells[k + 1], TRUE))
                ELSE 0] @@
    [game_id |-> game_id, team |-> team, player_name |-> cells[1]]

\* variant: _safe_int / _safe_float let the ValueError of a cell that is
\* not a number through, and the except of the row method returns None
ParsePlayerRow_ValueErrorEscapes(row, game_id, team, kind) ==
    IF Len(row.cells) < 10 THEN None
    ELSE IF row.cells[1] \in {"", "Reserves", "Team Totals"} THEN None
    ELSE IF kind = "files" THEN None
    ELSE IF \E k \in 3..Len(row.cells) : k <= 21 /\ ~IsFloatText(row.cells[k]) THEN None
    ELSE Some(PlayerRowStats(row.cells, game_id, team))

\* None or Some(dict).  In DataProcessor the row that passes the two checks
\* reaches "soup.find(...)" with soup not defined in that method: NameError,
\* caught by the method's except, which returns None.
ParsePlayerRow(row, game_id, team, kind) ==
    IF Len(row.cells) < 10 THEN None
    ELSE IF row.cells[1] \in {"", "Reserves", "Team Totals"} THEN None
    ELSE IF kind = "files" THEN None
    ELSE Some(PlayerRowStats(row.cells, game_id, team))

RECURSIVE PlayerRows(_, _, _, _)
PlayerRows(rows, game_id, team, kind) ==
    IF rows = << >> THEN << >>
    ELSE ParsePlayerRow(Head(rows), game_id, team, kind)
           \o PlayerRows(Tail(rows), game_id, team, kind)

ParsePlayerStats(doc, kind) ==
    (IF doc.basic["home"].present
     THEN PlayerRows(Middle(doc.basic["home"].rows), doc.game_id, "home", kind) ELSE << >>)
    \o
    (IF doc.basic["away"].present
     THEN PlayerRows(Middle(doc.basic["away"].rows), doc.game_id, "away", kind) ELSE << >>)

(***************************************************************************)
(* _parse_officials                                                        *)
(***************************************************************************)
\* variant: a record for every link, without the slice [:3]
ParseOfficials_EveryLink(doc) ==
    IF doc.officials = None THEN << >>
    ELSE LET official_links == doc.officials[1]
         IN [i \in 1..Len(official_links) |->
                [game_id |-> doc.game_id,
                 official_name |-> official_links[i].name,
                 official_url |-> official_links[i].href,
                 position |-> i]]

ParseOfficials(doc) ==
    IF doc.officials = None THEN << >>
    ELSE LET official_links == doc.officials[1]
             n == IF Len(official_links) < 3 THEN Len(official_links) ELSE 3
         IN [i \in 1..n |-> [game_id |-> doc.game_id,
                             official_name |-> official_links[i].name,
                             official_url |-> official_links[i].href,
                             position |-> i]]

(***************************************************************************)
(* The assemblers: parse_html_file ("files"), scrape_game_data ("scrape"), *)
(* scrape_comprehensive_game_data ("recent").  None or Some(game_data).    *)
(***************************************************************************)
Sections(soup, kind) ==
    [team_stats |-> ParseTeamStats(soup),
     player_stats |-> ParsePlayerStats(soup, kind),
     officials |-> ParseOfficials(soup)]

\* _scrape_additional_data: four dicts, empty when the page has none of the
\* marker elements
AdditionalData == [game_notes |-> EmptyDict, venue_info |-> EmptyDict,
                   timing_info |-> EmptyDict, advanced_metrics |-> EmptyDict]

\* variant: an exception of a player row leaves _parse_player_stats, and
\* the except of the assembler returns None
Assemble_SectionErrorDiscardsGame(doc, kind) ==
    LET soup == IF kind = "files" THEN DecomposeDoc(doc) ELSE doc
        game_data == ParseBasicGameInfo(soup, kind)
        raised == /\ kind = "files"
                  /\ \E t \in {"home", "away"} :
                        /\ soup.basic[t].present
                        /\ \E i \in 1..Len(Middle(soup.basic[t].rows)) :
                              LET cells == Middle(soup.basic[t].rows)[i].cells
                              IN /\ Len(cells) >= 10
                                 /\ cells[1] \notin {"", "Reserves", "Team Totals"}
    IN IF game_data = None \/ raised THEN None
       ELSE IF kind = "recent"
            THEN Some(AdditionalData @@ Sections(soup, kind) @@ game_data[1])
            ELSE Some(Sections(soup, kind) @@ game_data[1])

Assemble(doc, kind) ==
    LET soup == IF kind = "files" THEN DecomposeDoc(doc) ELSE doc
        game_data == ParseBasicGameInfo(soup, kind)
    IN IF game_data = None THEN None
       ELSE IF kind = "recent"
            THEN Some(AdditionalData @@ Sections(soup, kind) @@ game_data[1])
            ELSE Some(Sections(soup, kind) @@ game_data[1])

(***************************************************************************)
(* models.py: the attributes of the four mapped classes.  The declarative  *)
(* constructor called with a dict's keys as keyword arguments raises        *)
(* TypeError for a key that is not an attribute of the class,              *)
(* and assigning a list of dicts to a relationship attribute raises too.   *)
(***************************************************************************)
GameColumns == {"id", "game_id", "date", "season", "home_team", "away_team",
                "home_score", "away_score", "home_won"}

GameRelationships == {"home_stats", "away_stats", "officials"}

TeamGameStatsColumns ==
    {"id", "game_id", "team", "is_home",
     "fg", "fga", "fg_pct", "fg3", "fg3a", "fg3_pct", "ft", "fta", "ft_pct", "orb", "drb",
     "trb", "ast", "stl", "blk", "tov", "pf", "pts",
     "ts_pct", "efg_pct", "fg3a_rate", "fta_rate", "orb_pct", "drb_pct", "trb_pct",
     "ast_pct", "stl_pct", "blk_pct", "tov_pct", "usg_pct", "off_rtg", "def_rtg",
     "fg_max", "fga_max", "fg3_max", "fg3a_max", "ft_max", "fta_max", "orb_max",
     "drb_max", "trb_max", "ast_max", "stl_max", "blk_max", "tov_max", "pf_max",
     "pts_max", "home_game_id", "away_game_id"}

TeamGameStatsRelationships == {"home_game", "away_game"}

PlayerGameStatsColumns ==
    {"id", "game_id", "team", "player_name", "player_url", "mp",
     "fg", "fga", "fg_pct", "fg3", "fg3a", "fg3_pct", "ft", "fta", "ft_pct", "orb", "drb",
     "trb", "ast", "stl", "blk", "tov", "pf", "pts", "plus_minus",
     "ts_pct", "efg_pct", "fg3a_rate", "fta_rate", "orb_pct", "drb_pct", "trb_pct",
     "ast_pct", "stl_pct", "blk_pct", "tov_pct", "usg_pct", "off_rtg", "def_rtg", "bpm"}

GameOfficialColumns == {"id", "game_id", "official_name", "official_url", "position"}

GameOfficialRelationships == {"game"}

\* variant: a Game constructor that ignores the keys it does not know
GameCtorOk_IgnoresUnknownKeys(game_data) == TRUE

\* Game built from the keys of game_data: an object (TRUE) or a raise (FALSE)
GameCtorOk(game_data) ==
    /\ DOMAIN game_data \subseteq (GameColumns \cup GameRelationships)
    /\ \A k \in DOMAIN game_data \cap GameRelationships : game_data[k] = << >>

TeamGameStatsCtorOk(team_stat) ==
    DOMAIN team_stat \subseteq TeamGameStatsColumns

PlayerGameStatsCtorOk(player_stat) ==
    DOMAIN player_stat \subseteq PlayerGameStatsColumns

GameOfficialCtorOk(official) ==
    DOMAIN official \subseteq GameOfficialColumns

\* game_data.get(key, [])
Get(game_data, key) == IF key \in DOMAIN game_data THEN game_data[key] ELSE << >>

(***************************************************************************)
(* State                                                                   *)
(***************************************************************************)
VARIABLES
    games,             \* rows of table games
    team_game_stats,   \* rows of table team_game_stats
    player_game_stats, \* rows of table player_game_stats
    game_officials,    \* rows of table game_officials
    sess,              \* per worker: the save call in progress / last returned
    run,               \* the bulk loop of worker "w1"
    fetch,             \* get_html_with_retry of the scraper instance
    asm,               \* the assembler applied to one document
    upd                \* the update loop of scrape_recent_data.py

vars == <<games, team_game_stats, player_game_stats, game_officials, sess, run, fetch, asm,
          upd>>
store == <<games, team_game_stats, player_game_stats, game_officials>>

(***************************************************************************)
(* The storage layer: constraints of models.py, checked at flush           *)
(***************************************************************************)
\* variant: games.game_id declared without unique=True
GamesUnique_NotDeclared(rows) == TRUE

\* Column(String(50), unique=True) on games.game_id
GamesUnique(rows) ==
    \A r1, r2 \in rows : r1.game_id = r2.game_id => r1 = r2

\* UniqueConstraint('game_id', 'team')
TeamUnique(rows) ==
    \A r1, r2 \in rows : (r1.game_id = r2.game_id /\ r1.team = r2.team) => r1 = r2

\* UniqueConstraint('game_id', 'team', 'player_name')
PlayerUnique(rows) ==
    \A r1, r2 \in rows :
        (r1.game_id = r2.game_id /\ r1.team = r2.team /\ r1.player_name = r2.player_name)
            => r1 = r2

\* the rows an INSERT of the objects objs adds to table: ids continue the
\* table's primary key sequence in the order of db.add
Inserted(table, objs) ==
    {objs[i] @@ [id |-> Cardinality(table) + i] : i \in 1..Len(objs)}

GameRow(game_data) ==
    [k \in DOMAIN game_data \cap GameColumns |-> game_data[k]]

\* column defaults of models.py for the columns a dict leaves out
TeamRow(team_stat) ==
    team_stat @@ [c \in TeamGameStatsColumns \ {"id", "game_id", "team", "is_home",
                                                "home_game_id", "away_game_id"} |-> 0]

PlayerRow(player_stat) ==
    player_stat @@ [mp |-> "0"] @@
    [c \in PlayerGameStatsColumns \ {"id", "game_id", "team", "player_name",
                                     "player_url", "mp"} |-> 0]

MapSeq(f(_), s) == [i \in 1..Len(s) |-> f(s[i])]

(***************************************************************************)
(* Inputs of the model                                                     *)
(***************************************************************************)
Line(away_total, home_total) ==
    Table(<<Row(<<"", "T">>), Row(<<"LAL", away_total>>), Row(<<"BOS", home_total>>)>>)

HeaderRow == Row(<<"Starters", "MP", "FG", "FGA", "FG%", "3P", "3PA", "3P%", "FT", "FTA",
                   "FT%", "ORB", "DRB", "TRB", "AST", "STL", "BLK", "TOV", "PF", "PTS", "+/-">>)

PlayerLine(name, pts) ==
    Row(<<name, "35:12", "10", "25", ".456", "3", "5", ".500", "2", "2", "1.000",
          "1", "8", "8", "5", "1", "0", "2", "3", pts, "5">>)

TotalsRow == Row(<<"Team Totals", "240", "10", "25", ".456", "3", "5", ".500", "2", "2",
                   "1.000", "1", "8", "8", "5", "1", "0", "2", "3", "25">>)

BasicFull == Table(<<HeaderRow, PlayerLine("J. Tatum", "25"), TotalsRow>>)

NoTables == [home |-> AbsentTable, away |-> AbsentTable]

Links(n) == [i \in 1..n |-> [name \in {"name", "href"} |->
                               IF name = "name" THEN <<"official", i>> ELSE "/referees/x.html"]]

Today == <<2026, 11, 3>>

Doc(game_id, line_score, basic, officials) ==
    [game_id |-> game_id, line_score |-> line_score, basic |-> basic,
     advanced |-> NoTables, officials |-> officials, scorebox |-> None, now |-> Today]

\* the documents a unit of a bulk run may hold
MainDocs(game_id) ==
    {Doc(game_id, ls, so[1], so[2]) :
        ls \in {Line("99", "101"), AbsentTable},
        so \in {<<NoTables, None>>,
                <<[home |-> BasicFull, away |-> AbsentTable], Some(Links(1))>>}}

\* the dict of the game columns alone
Bare(game_data) == [k \in DOMAIN game_data \cap GameColumns |-> game_data[k]]

FullDoc(game_id) ==
    Doc(game_id, Line("99", "101"), [home |-> BasicFull, away |-> AbsentTable],
        Some(Links(1)))

\* what the assembler returns for them
ParsedDicts == {Assemble(FullDoc(g), "scrape")[1] : g \in GameIds}

\* the dicts handed to a save function called on its own
SaveInputs == ParsedDicts \cup {Bare(d) : d \in ParsedDicts}

(***************************************************************************)
(* save_game_to_database / save_comprehensive_game_data (the four copies   *)
(* in data_processor.py, scraper.py, main.py, scrape_recent_data.py and    *)
(* enhanced_scraper.py have the same body).                                *)
(*   pc: "idle" no call, "called" entered, "checked" the existence query   *)
(*   found nothing, "game_committed" after the first db.commit();          *)
(*   open: the session db is acquired and not yet closed;                  *)
(*   outcome: "skipped" (existing game), "saved", "failed" (except branch) *)
(*   and error the class of the exception caught;                          *)
(*   found_pk: id of the row the existence query returned, game_pk: id the *)
(*   committed Game object got, subs: number of sub-records committed;     *)
(*   calls, prev_same, prev_outcome, prev_pk: the number of calls that     *)
(*   returned (counted up to 2) and, for the call before the current one,  *)
(*   whether it had the same game_data, its outcome and its game_pk.       *)
(***************************************************************************)
\* the worker whose process runs the bulk loop
Runner == "w1"

SessIdle == [pc |-> "idle", open |-> FALSE, game_data |-> None, outcome |-> "",
             error |-> "", found_pk |-> 0, game_pk |-> 0, subs |-> 0, calls |-> 0,
             prev_same |-> FALSE, prev_outcome |-> "", prev_pk |-> 0]

\* variant: the early return of an existing game leaves without db.close()
Returned_NoCloseOnSkip(w, outcome, error, found_pk, game_pk, subs) ==
    [sess[w] EXCEPT !.pc = "idle", !.open = (outcome = "skipped"), !.outcome = outcome,
                    !.error = error, !.found_pk = found_pk, !.game_pk = game_pk,
                    !.subs = subs, !.calls = IF @ < 2 THEN @ + 1 ELSE @]

\* the call of w returns with the given outcome; finally: db.close()
Returned(w, outcome, error, found_pk, game_pk, subs) ==
    [sess[w] EXCEPT !.pc = "idle", !.open = FALSE, !.outcome = outcome, !.error = error,
                    !.found_pk = found_pk, !.game_pk = game_pk, !.subs = subs,
                    !.calls = IF @ < 2 THEN @ + 1 ELSE @]

\* the caller's statement that issues the call
Call(w, game_data) ==
    [sess[w] EXCEPT !.pc = "called", !.game_data = Some(game_data), !.outcome = "",
                    !.error = "", !.found_pk = 0, !.game_pk = 0, !.subs = 0,
                    !.prev_same = (sess[w].calls > 0 /\ sess[w].game_data = Some(game_data)),
                    !.prev_outcome = sess[w].outcome,
                    !.prev_pk = sess[w].game_pk]

\* the bulk loop after "if game_data: save(...)" returned
AfterSave(outcome) ==
    [run EXCEPT !.pc = "unit", !.idx = @ + 1,
                !.processed_count = IF run.kind = "files" THEN @ + 1 ELSE @,
                !.total_games = IF run.kind = "recent" THEN @ + 1 ELSE @,
                !.saved = IF outcome = "saved" THEN @ + 1 ELSE @,
                !.skipped = IF outcome = "skipped" THEN @ + 1 ELSE @,
                !.failed = IF outcome = "failed" THEN @ + 1 ELSE @]

RunAfter(w, outcome) == IF w = Runner THEN AfterSave(outcome) ELSE run

Exists(game_id) == \E r \in games : r.game_id = game_id

\* .first(): the row with the lowest id
ExistingPk(game_id) ==
    LET ids == {r.id : r \in {x \in games : x.game_id = game_id}}
    IN CHOOSE i \in ids : \A j \in ids : i <= j

\* db = SessionLocal(); existing_game = query.first(); if existing_game: return
SaveCheck(w) ==
    /\ sess[w].pc = "called"
    /\ LET game_data == sess[w].game_data[1]
       IN IF Exists(game_data.game_id)
          THEN /\ sess' = [sess EXCEPT ![w] =
                            Returned(w, "skipped", "", ExistingPk(game_data.game_id), 0, 0)]
               /\ run' = RunAfter(w, "skipped")
          ELSE /\ sess' = [sess EXCEPT ![w].pc = "checked", ![w].open = TRUE]
               /\ run' = run
    /\ UNCHANGED <<store, fetch, asm, upd>>

\* the flush of db.add(game) at the first db.commit()
CommitGameOk(game_data, storage_ok) ==
    /\ storage_ok
    /\ GamesUnique(games \cup Inserted(games, <<GameRow(game_data)>>))

\* the class of the exception the except branch catches
GameError(game_data, storage_ok) ==
    IF ~GameCtorOk(game_data) THEN "TypeError"
    ELSE IF ~storage_ok THEN "OperationalError" ELSE "IntegrityError"

\* game = Game(...); db.add(game); db.commit()   (except: rollback; close)
SaveGame(w) ==
    /\ sess[w].pc = "checked"
    /\ \E storage_ok \in BOOLEAN :
         LET game_data == sess[w].game_data[1]
         IN IF GameCtorOk(game_data) /\ CommitGameOk(game_data, storage_ok)
            THEN /\ Cardinality(games) < MaxRows
                 /\ games' = games \cup Inserted(games, <<GameRow(game_data)>>)
                 /\ sess' = [sess EXCEPT ![w].pc = "game_committed",
                                         ![w].game_pk = Cardinality(games) + 1]
                 /\ run' = run
            ELSE /\ games' = games
                 /\ sess' = [sess EXCEPT ![w] =
                              Returned(w, "failed", GameError(game_data, storage_ok), 0, 0, 0)]
                 /\ run' = RunAfter(w, "failed")
    /\ UNCHANGED <<team_game_stats, player_game_stats, game_officials, fetch, asm, upd>>

\* the three loops that build the sub-records: FALSE when a constructor raises
SubCtorsOk(game_data) ==
    /\ \A i \in 1..Len(Get(game_data, "team_stats")) :
          TeamGameStatsCtorOk(Get(game_data, "team_stats")[i])
    /\ \A i \in 1..Len(Get(game_data, "player_stats")) :
          PlayerGameStatsCtorOk(Get(game_data, "player_stats")[i])
    /\ \A i \in 1..Len(Get(game_data, "officials")) :
          GameOfficialCtorOk(Get(game_data, "officials")[i])

NewTeamRows(game_data) == Inserted(team_game_stats, MapSeq(TeamRow, Get(game_data, "team_stats")))
NewPlayerRows(game_data) == Inserted(player_game_stats, MapSeq(PlayerRow, Get(game_data, "player_stats")))
NewOfficialRows(game_data) == Inserted(game_officials, Get(game_data, "officials"))

SubCount(game_data) == Len(Get(game_data, "team_stats")) + Len(Get(game_data, "player_stats"))
                         + Len(Get(game_data, "officials"))

\* the flush of the second db.commit(); with nothing added it emits no SQL
CommitSubsOk(game_data, storage_ok) ==
    \/ SubCount(game_data) = 0
    \/ /\ storage_ok
       /\ TeamUnique(team_game_stats \cup NewTeamRows(game_data))
       /\ PlayerUnique(player_game_stats \cup NewPlayerRows(game_data))

SubsError(game_data, storage_ok) ==
    IF ~SubCtorsOk(game_data) THEN "TypeError"
    ELSE IF ~storage_ok THEN "OperationalError" ELSE "IntegrityError"

\* the sub-record loops and the second db.commit()   (except: rollback; close)
SaveSubs(w) ==
    /\ sess[w].pc = "game_committed"
    /\ \E storage_ok \in BOOLEAN :
         LET game_data == sess[w].game_data[1]
         IN IF SubCtorsOk(game_data) /\ CommitSubsOk(game_data, storage_ok)
            THEN /\ team_game_stats' = team_game_stats \cup NewTeamRows(game_data)
                 /\ player_game_stats' = player_game_stats \cup NewPlayerRows(game_data)
                 /\ game_officials' = game_officials \cup NewOfficialRows(game_data)
                 /\ sess' = [sess EXCEPT ![w] = Returned(w, "saved", "", 0, sess[w].game_pk,
                                                          SubCount(game_data))]
                 /\ run' = RunAfter(w, "saved")
            ELSE /\ UNCHANGED <<team_game_stats, player_game_stats, game_officials>>
                 /\ sess' = [sess EXCEPT ![w] =
                              Returned(w, "failed", SubsError(game_data, storage_ok), 0,
                                       sess[w].game_pk, 0)]
                 /\ run' = RunAfter(w, "failed")
    /\ UNCHANGED <<games, fetch, asm, upd>>

\* a save function called on its own by worker w
DirectSave(w, game_data) ==
    /\ sess[w].pc = "idle"
    /\ run.pc = "idle"
    /\ fetch.pc = "idle"
    /\ sess' = [sess EXCEPT ![w] = Call(w, game_data)]
    /\ UNCHANGED <<store, run, fetch, asm, upd>>

(***************************************************************************)
(* get_html_with_retry (scraper.py and enhanced_scraper.py, same body).    *)
(* The argument max_retries is None or Some(n).  One action is one         *)
(* iteration of "for attempt in range(max_retries)": the navigation, and   *)
(* on an error the handler with its backoff sleep.                         *)
(***************************************************************************)
\* variant: only None is replaced ("if max_retries is None")
EffectiveRetries_ZeroKept(arg) == IF arg = None THEN MAX_RETRIES ELSE arg[1]

\* max_retries = max_retries or settings.MAX_RETRIES
EffectiveRetries(arg) == IF arg = None \/ arg[1] = 0 THEN MAX_RETRIES ELSE arg[1]

FetchIdle == [pc |-> "idle", by |-> "", url |-> None, selector |-> "", arg |-> None,
              max_retries |-> 0, attempt |-> 0, attempts |-> 0, last |-> "",
              backoffs |-> << >>, steps |-> << >>, result |-> None]

FetchStart(by, url, selector, arg) ==
    [FetchIdle EXCEPT !.pc = "running", !.by = by, !.url = Some(url),
                      !.selector = selector, !.arg = arg,
                      !.max_retries = EffectiveRetries(arg)]

\* the statements of the try block in the order the iteration runs them:
\* "async with self.throttler", page.goto, asyncio.sleep(REQUEST_DELAY), then
\* page.content() for the selector "body" and otherwise wait_for_selector
\* and inner_html, then "return html"
TrySteps(selector) ==
    <<"throttle", "goto", "sleep">>
      \o (IF selector = "body" THEN <<"content">> ELSE <<"wait_for_selector", "inner_html">>)
      \o <<"return">>

\* the statements that can raise: PlaywrightTimeout comes from page.goto or
\* wait_for_selector, another exception from any call on the page
RaisingSteps(selector, o) ==
    IF o = "timeout" THEN {"goto", "wait_for_selector"} \cap SeqToSet(TrySteps(selector))
    ELSE {"goto", "content", "wait_for_selector", "inner_html"} \cap SeqToSet(TrySteps(selector))

\* the statements an iteration ran: all of them, or those up to the one
\* that raised
StepsRun(selector, o, at) ==
    IF o = "ok" THEN TrySteps(selector)
    ELSE LET n == CHOOSE i \in 1..Len(TrySteps(selector)) : TrySteps(selector)[i] = at
         IN SubSeq(TrySteps(selector), 1, n)

\* variant: the handlers sleep REQUEST_DELAY whatever the attempt number
AfterAttempt_ConstantBackoff(f, o) ==
    LET made == [f EXCEPT !.attempts = @ + 1, !.last = o]
    IN IF o = "ok"
       THEN [made EXCEPT !.pc = "returned", !.result = Some("html")]
       ELSE IF f.attempt = f.max_retries - 1
            THEN [made EXCEPT !.pc = "returned", !.result = None]
            ELSE [made EXCEPT !.attempt = @ + 1,
                              !.backoffs = Append(@, REQUEST_DELAY)]

\* variant: the timeout handler gives up at once instead of retrying
AfterAttempt_TimeoutGivesUp(f, o) ==
    LET made == [f EXCEPT !.attempts = @ + 1, !.last = o]
    IN IF o = "ok"
       THEN [made EXCEPT !.pc = "returned", !.result = Some("html")]
       ELSE IF f.attempt = f.max_retries - 1 \/ o = "timeout"
            THEN [made EXCEPT !.pc = "returned", !.result = None]
            ELSE [made EXCEPT !.attempt = @ + 1,
                              !.backoffs = Append(@, REQUEST_DELAY * (f.attempt + 1))]

\* variant: only PlaywrightTimeout is handled, any other exception of the
\* last iteration propagates to the caller
AfterAttempt_ErrorPropagates(f, o) ==
    LET made == [f EXCEPT !.attempts = @ + 1, !.last = o]
    IN IF o = "ok"
       THEN [made EXCEPT !.pc = "returned", !.result = Some("html")]
       ELSE IF f.attempt = f.max_retries - 1
            THEN IF o = "error" THEN [made EXCEPT !.pc = "raised"]
                 ELSE [made EXCEPT !.pc = "returned", !.result = None]
            ELSE [made EXCEPT !.attempt = @ + 1,
                              !.backoffs = Append(@, REQUEST_DELAY * (f.attempt + 1))]

\* the state after the iteration number fetch.attempt ends with outcome o:
\* "ok" returns the markup, "timeout" is PlaywrightTimeout, "error" any
\* other exception.  attempts counts the navigations, last is the outcome
\* of the latest one, backoffs the sleeps of the handlers so far.
AfterAttempt(f, o) ==
    LET made == [f EXCEPT !.attempts = @ + 1, !.last = o]
    IN IF o = "ok"
       THEN [made EXCEPT !.pc = "returned", !.result = Some("html")]
       ELSE IF f.attempt = f.max_retries - 1
            THEN [made EXCEPT !.pc = "returned", !.result = None]
            ELSE [made EXCEPT !.attempt = @ + 1,
                              !.backoffs = Append(@, REQUEST_DELAY * (f.attempt + 1))]

FetchAttempt ==
    /\ fetch.pc = "running"
    /\ fetch.attempt < fetch.max_retries
    /\ \E o \in {"ok", "timeout", "error"} :
          \E at \in (IF o = "ok" THEN {"return"} ELSE RaisingSteps(fetch.selector, o)) :
             fetch' = [AfterAttempt(fetch, o) EXCEPT
                          !.steps = StepsRun(fetch.selector, o, at)]
    /\ UNCHANGED <<store, sess, run, asm, upd>>

\* get_html_with_retry called on its own
FetchCall(url, selector, arg) ==
    /\ fetch.pc \in {"idle", "returned"}
    /\ run.pc = "idle"
    /\ fetch' = FetchStart("direct", url, selector, arg)
    /\ UNCHANGED <<store, sess, run, asm, upd>>

FetchArgs == {None} \cup {Some(n) : n \in 0..MaxRetriesArg}

(***************************************************************************)
(* The bulk loops: DataProcessor.process_existing_files ("files"),         *)
(* main.scrape_new_data ("scrape"), scrape_recent_seasons_for_testing      *)
(* ("recent").  units is the list of game ids of the files / URLs.         *)
(*   pc: "idle" not started, "unit" at the head of the for loop,           *)
(*   "fetching" inside get_html_with_retry, "fetched" it returned,         *)
(*   "saving" inside the save function, "done" after the loop.             *)
(* saved / skipped / failed / no_fetch / no_parse record what happened to  *)
(* the units; the loops themselves keep only processed_count, error_count  *)
(* and total_games.                                                        *)
(***************************************************************************)
RunIdle == [pc |-> "idle", kind |-> "", units |-> << >>, idx |-> 1,
            scraped_games |-> {}, processed_count |-> 0, error_count |-> 0,
            total_games |-> 0, saved |-> 0, skipped |-> 0, failed |-> 0,
            no_fetch |-> 0, no_parse |-> 0]

\* lists of at most MaxUnits game ids
UnitLists == UNION {[1..n -> GameIds] : n \in 0..MaxUnits}

\* html_files = list(scores_dir.glob("*.html")): file names are distinct
Distinct(units) == \A i, j \in 1..Len(units) : units[i] = units[j] => i = j

\* the command that starts a bulk loop in a process of its own: no save call
\* is in progress and the records of the calls made before are dropped
StartRun(kind, units) ==
    /\ run.pc = "idle"
    /\ fetch.pc = "idle"
    /\ \A w \in Workers : sess[w].pc = "idle"
    /\ kind = "files" => Distinct(units)
    /\ run' = [RunIdle EXCEPT !.pc = "unit", !.kind = kind, !.units = units]
    /\ sess' = [w \in Workers |-> SessIdle]
    /\ UNCHANGED <<store, fetch, asm, upd>>

NextUnit(r) == [r EXCEPT !.pc = "unit", !.idx = @ + 1]

\* scrape_game_data / scrape_comprehensive_game_data up to the call of
\* get_html_with_retry(url, "#content")
LoopFetch ==
    /\ run.pc = "unit"
    /\ run.kind \in {"scrape", "recent"}
    /\ run.idx <= Len(run.units)
    /\ IF run.kind = "recent" /\ run.units[run.idx] \in run.scraped_games
       THEN /\ run' = [NextUnit(run) EXCEPT !.no_fetch = @ + 1]
            /\ fetch' = fetch
       ELSE /\ run' = [run EXCEPT !.pc = "fetching"]
            /\ fetch' = FetchStart("run", run.units[run.idx], "#content", None)
    /\ UNCHANGED <<store, sess, asm, upd>>

\* the rest of the unit: "if not html: return None", the assembler, and the
\* loop's "if game_data:" up to the call of the save function
LoopParse ==
    /\ \/ run.pc = "unit" /\ run.kind = "files" /\ run.idx <= Len(run.units)
       \/ run.pc = "fetching" /\ fetch.pc = "returned"
    /\ fetch' = FetchIdle
    /\ IF run.kind # "files" /\ fetch.result = None
       THEN /\ run' = [NextUnit(run) EXCEPT !.no_fetch = @ + 1]
            /\ sess' = sess
       ELSE \E doc \in MainDocs(run.units[run.idx]) :
              LET game_data == Assemble(doc, run.kind)
              IN IF game_data = None
                 THEN /\ run' = [NextUnit(run) EXCEPT !.no_parse = @ + 1]
                      /\ sess' = sess
                 ELSE /\ run' = [run EXCEPT !.pc = "saving",
                                            !.scraped_games =
                                               IF run.kind = "recent"
                                               THEN @ \cup {doc.game_id} ELSE @]
                      /\ sess' = [sess EXCEPT ![Runner] = Call(Runner, game_data[1])]
    /\ UNCHANGED <<store, asm, upd>>

\* the for loop is exhausted: the final log line
LoopEnd ==
    /\ run.pc = "unit"
    /\ run.idx > Len(run.units)
    /\ run' = [run EXCEPT !.pc = "done"]
    /\ UNCHANGED <<store, sess, fetch, asm, upd>>

(***************************************************************************)
(* The assembler applied to one document                                   *)
(***************************************************************************)
AsmIdle == [pc |-> "idle", kind |-> "", doc |-> None, result |-> None, parsed |-> None]

AssembleStep ==
    /\ asm.pc = "ready"
    /\ asm' = [asm EXCEPT !.pc = "done", !.result = Assemble(asm.doc[1], asm.kind)]
    /\ UNCHANGED <<store, sess, run, fetch, upd>>

\* parse_game_id applied to the URL of the document, and
\* parse_date_from_filename applied to the id it returns
ParseIdStep ==
    /\ asm.pc = "ready"
    /\ LET game_id == ParseGameId(UrlOf(asm.doc[1].game_id))
       IN asm' = [asm EXCEPT !.pc = "id_parsed",
                             !.parsed = Some([game_id |-> game_id,
                                              date |-> ParseDateFromFilename(game_id)])]
    /\ UNCHANGED <<store, sess, run, fetch, upd>>

(***************************************************************************)
(* scrape_recent_data.py: the body of the loop of update_existing_data,    *)
(*   if await should_update_game(game_data):                               *)
(*       await update_game_data(game_data)                                 *)
(*       updated_count += 1                                                *)
(* update_game_data has one db.commit(), so the whole body is one step.    *)
(* upd keeps updated_count, the game_data of the latest iteration and what *)
(* became of it: "not_needed" (should_update_game returned False),         *)
(* "no_game" (the query found no game: nothing is done), "updated" (the    *)
(* commit went through), "failed" (except: rollback).                      *)
(***************************************************************************)
UpdIdle == [updated_count |-> 0, game_data |-> None, outcome |-> "", error |-> "",
            open |-> FALSE]

\* the iteration is over: the sessions of get_game_details and of
\* update_game_data were closed by their finally blocks
UpdReturned(updated_count, game_data, outcome, error) ==
    [updated_count |-> updated_count, game_data |-> Some(game_data), outcome |-> outcome,
     error |-> error, open |-> FALSE]

\* the Game object the query .first() returns
FirstGame(game_id) ==
    CHOOSE g \in games : g.game_id = game_id /\ g.id = ExistingPk(game_id)

\* variant: the two scores are compared one by one
ShouldUpdateGame_ComparesEachScore(game_data) ==
    IF ~Exists(game_data.game_id) THEN TRUE
    ELSE LET game == FirstGame(game_data.game_id)
         IN \/ game.home_score # game_data.home_score
            \/ game.away_score # game_data.away_score

\* variant: a game that is not stored is not selected
ShouldUpdateGame_SkipsAbsentGame(game_data) ==
    IF ~Exists(game_data.game_id) THEN FALSE
    ELSE LET game == FirstGame(game_data.game_id)
         IN game.home_score + game.away_score
              # game_data.home_score + game_data.away_score

\* should_update_game: True for a game that is not stored, else whether
\* the sum of the two scores differs from the stored one
ShouldUpdateGame(game_data) ==
    IF ~Exists(game_data.game_id) THEN TRUE
    ELSE LET game == FirstGame(game_data.game_id)
         IN game.home_score + game.away_score
              # game_data.home_score + game_data.away_score

\* variant: the two scores are overwritten and home_won is left as stored
GameAfterUpdate_ScoresOnly(game, game_data) ==
    [game EXCEPT !.home_score = game_data.home_score,
                 !.away_score = game_data.away_score]

\* game.home_score = ...; game.away_score = ...; game.home_won = ...
GameAfterUpdate(game, game_data) ==
    [game EXCEPT !.home_score = game_data.home_score,
                 !.away_score = game_data.away_score,
                 !.home_won = game_data.home_won]

\* for key, value in d.items(): if hasattr(row, key): setattr(row, key, value)
SetAttrs(row, d, attrs) ==
    [k \in DOMAIN row |-> IF k \in DOMAIN d /\ k \in attrs THEN d[k] ELSE row[k]]

\* one of the two "for ... in game_data.get(...)" loops, from its remaining
\* dicts: table is the rows as the session holds them, added the dicts whose
\* objects were handed to db.add (autoflush is off: the queries do not see
\* them).  None when a statement raises: KeyError for a dict without a key
\* the filter reads, TypeError from the constructor.
RECURSIVE MergeLoop(_, _, _, _, _, _)
MergeLoop(dicts, table, added, game_id, keys, attrs) ==
    IF dicts = << >> THEN Some([table |-> table, added |-> added])
    ELSE LET d == Head(dicts)
         IN IF ~(keys \subseteq DOMAIN d) THEN None
            ELSE LET found == {r \in table : r.game_id = game_id
                                               /\ \A k \in keys : r[k] = d[k]}
                 IN IF found # {}
                    THEN LET existing == CHOOSE r \in found : \A q \in found : r.id <= q.id
                         IN MergeLoop(Tail(dicts),
                                      (table \ {existing}) \cup {SetAttrs(existing, d, attrs)},
                                      added, game_id, keys, attrs)
                    ELSE IF ~(DOMAIN d \subseteq attrs) THEN None
                         ELSE MergeLoop(Tail(dicts), table, Append(added, d),
                                        game_id, keys, attrs)

\* variant: the loop deletes the stored rows of the game and adds an object
\* for every dict of the payload
StatsLoop_ReplacesRows(dicts, table, game_id, keys, attrs) ==
    IF \E i \in 1..Len(dicts) : ~(DOMAIN dicts[i] \subseteq attrs) THEN None
    ELSE Some([table |-> {r \in table : r.game_id # game_id}, added |-> dicts])

\* the loop over team_stats, and the one over player_stats
StatsLoop(dicts, table, game_id, keys, attrs) ==
    MergeLoop(dicts, table, << >>, game_id, keys, attrs)

\* the rows of the three tables the try block of update_game_data leaves at
\* its db.commit(), or None when a statement before it raises
UpdateGameData(game_data) ==
    LET game_id == game_data.game_id
        game == FirstGame(game_id)
        team == StatsLoop(Get(game_data, "team_stats"), team_game_stats, game_id, {"team"},
                          TeamGameStatsColumns \cup TeamGameStatsRelationships)
        player == StatsLoop(Get(game_data, "player_stats"), player_game_stats, game_id,
                            {"player_name", "team"}, PlayerGameStatsColumns)
    IN IF ~({"home_score", "away_score", "home_won"} \subseteq DOMAIN game_data) THEN None
       ELSE IF team = None THEN None
       ELSE IF player = None THEN None
       ELSE Some([games |-> (games \ {game}) \cup {GameAfterUpdate(game, game_data)},
                  team_game_stats |->
                      team[1].table \cup Inserted(team[1].table, MapSeq(TeamRow, team[1].added)),
                  player_game_stats |->
                      player[1].table
                        \cup Inserted(player[1].table, MapSeq(PlayerRow, player[1].added))])

\* variant: the two tables declared without their UniqueConstraint
CommitUpdateOk_NoUniqueConstraint(after, storage_ok) == storage_ok

\* the flush of db.commit()
CommitUpdateOk(after, storage_ok) ==
    /\ storage_ok
    /\ TeamUnique(after.team_game_stats)
    /\ PlayerUnique(after.player_game_stats)

\* the class of the exception the except branch catches: KeyError and
\* TypeError come from the loops, the other two from the flush
UpdateError(after, storage_ok) ==
    IF after = None THEN "TypeError"
    ELSE IF ~storage_ok THEN "OperationalError" ELSE "IntegrityError"

UpdateGame(game_data) ==
    /\ upd.updated_count < MaxUpdates
    /\ run.pc = "idle"
    /\ fetch.pc = "idle"
    /\ IF ~ShouldUpdateGame(game_data)
       THEN /\ upd' = UpdReturned(upd.updated_count, game_data, "not_needed", "")
            /\ UNCHANGED store
       ELSE IF ~Exists(game_data.game_id)
       THEN /\ upd' = UpdReturned(upd.updated_count + 1, game_data, "no_game", "")
            /\ UNCHANGED store
       ELSE \E storage_ok \in BOOLEAN :
              LET after == UpdateGameData(game_data)
              IN IF after # None /\ CommitUpdateOk(after[1], storage_ok)
                 THEN /\ games' = after[1].games
                      /\ team_game_stats' = after[1].team_game_stats
                      /\ player_game_stats' = after[1].player_game_stats
                      /\ game_officials' = game_officials
                      /\ upd' = UpdReturned(upd.updated_count + 1, game_data, "updated", "")
                 ELSE /\ upd' = UpdReturned(upd.updated_count + 1, game_data, "failed",
                                        UpdateError(after, storage_ok))
                      /\ UNCHANGED store
    /\ UNCHANGED <<sess, run, fetch, asm>>

(***************************************************************************)
(* Specifications                                                          *)
(***************************************************************************)
Kinds == {"files", "scrape", "recent"}

Init ==
    /\ games = {}
    /\ team_game_stats = {}
    /\ player_game_stats = {}
    /\ game_officials = {}
    /\ sess = [w \in Workers |-> SessIdle]
    /\ run = RunIdle
    /\ fetch = FetchIdle
    /\ asm = AsmIdle
    /\ upd = UpdIdle

Next ==
    \/ \E kind \in Kinds, units \in UnitLists : StartRun(kind, units)
    \/ LoopFetch
    \/ FetchAttempt
    \/ LoopParse
    \/ LoopEnd
    \/ \E w \in Workers, game_data \in SaveInputs : DirectSave(w, game_data)
    \/ \E w \in Workers : SaveCheck(w)
    \/ \E w \in Workers : SaveGame(w)
    \/ \E w \in Workers : SaveSubs(w)

Spec == Init /\ [][Next]_vars

(***************************************************************************)
(* get_html_with_retry on its own.  The coroutine is awaited by its        *)
(* caller, and every wait inside an iteration is bounded, so an iteration  *)
(* that can run does run: weak fairness of FetchAttempt.                   *)
(***************************************************************************)
Urls == GameIds
Selectors == {"body", "#content"}

FetchNext ==
    \/ \E url \in Urls, selector \in Selectors, arg \in FetchArgs :
          FetchCall(url, selector, arg)
    \/ FetchAttempt

FetchSpec == Init /\ [][FetchNext]_vars /\ WF_vars(FetchAttempt)

(***************************************************************************)
(* The assembler over a set of documents                                   *)
(***************************************************************************)
ScoreTexts == {"99", "101", "x"}

LineScores ==
    {AbsentTable,
     Table(<< >>),
     Table(<<Row(<<"", "T">>), Row(<<"LAL", "99">>)>>),
     Table(<<Row(<<"", "T">>), Row(<<"LAL", "99">>), Row(<<"BOS">>)>>),
     Table(<<Row(<<"", "T">>), Row(<<"LAL", "99">>), Row(<<"BOS", "101">>),
             Row(<<"NYK", "99">>)>>)}
    \cup {Line(a, b) : a \in ScoreTexts, b \in ScoreTexts}

BadId == <<"b", "o", "x">>

\* a box score with three player rows
ThreePlayers == Table(<<HeaderRow, PlayerLine("J. Tatum", "10"), PlayerLine("J. Brown", "25"),
                        PlayerLine("A. Horford", "8"), TotalsRow>>)

\* a box score with a row of placeholder cells, the 'Reserves' separator,
\* a row that stops after the FTA column and a row of two cells
Placeholders ==
    Table(<<HeaderRow,
            Row(<<"D. White", "", "", "x", ".456", "3", "5", "", "2", "2", "x",
                  "1", "8", "8", "5", "1", "0", "2", "3", "x", "5">>),
            [cls |-> "thead",
             cells |-> <<"Reserves", "MP", "FG", "FGA", "FG%", "3P", "3PA", "3P%", "FT",
                         "FTA", "FT%", "ORB", "DRB", "TRB", "AST", "STL", "BLK", "TOV",
                         "PF", "PTS", "+/-">>],
            Row(<<"P. Pritchard", "12:00", "1", "2", ".500", "0", "1", "0", "2", "2">>),
            Row(<<"L. Kornet", "Did Not Play">>),
            TotalsRow>>)

\* an advanced box score: header, one player row, totals row
AdvancedFull ==
    Table(<<Row(<<"Starters", "TS%", "eFG%", "3PAr", "FTr", "ORB%", "DRB%", "TRB%", "AST%",
                  "STL%", "BLK%", "TOV%", "USG%", "ORtg", "DRtg", "BPM">>),
            Row(<<"J. Tatum", ".500", ".456", ".500", ".456", "5", "25", "10", "25", "2",
                  "1", "10", "25", "101", "99", "5">>),
            Row(<<"Team Totals", ".500", ".456", ".500", ".456", "5", "25", "10", "25", "2",
                  "1", "10", "25", "101", "99", "">>)>>)

\* a box score as the site serves it: the over_header row above the
\* column header row
OverHeader ==
    Table(<<[cls |-> "over_header", cells |-> <<"", "Basic Box Score Stats">>],
            HeaderRow, PlayerLine("J. Tatum", "25"), TotalsRow>>)

AsmDocs ==
    {Doc(game_id, ls, basic, None) :
        game_id \in GameIds \cup {BadId}, ls \in LineScores,
        basic \in {NoTables, [home |-> BasicFull, away |-> AbsentTable]}}
    \cup
    {[Doc(game_id, Line("99", "101"), basic, Some(Links(1))) EXCEPT !.scorebox = scorebox] :
        game_id \in GameIds,
        basic \in {[home |-> ThreePlayers, away |-> BasicFull],
                   [home |-> Placeholders, away |-> AbsentTable]},
        scorebox \in {None, Some(<<2023, 10, 24>>)}}
    \cup
    {[Doc(game_id, Line("99", "101"), [home |-> BasicFull, away |-> BasicFull], None)
         EXCEPT !.advanced = [home |-> AdvancedFull, away |-> AbsentTable]] :
        game_id \in GameIds}
    \cup
    {Doc(game_id, Line("99", "101"), [home |-> OverHeader, away |-> AbsentTable], None) :
        game_id \in GameIds}
    \cup
    {Doc(game_id, Line("99", "101"), NoTables, Some(Links(n))) :
        game_id \in GameIds, n \in {0, 2, MaxLinks}}

AsmInit ==
    /\ games = {}
    /\ team_game_stats = {}
    /\ player_game_stats = {}
    /\ game_officials = {}
    /\ sess = [w \in Workers |-> SessIdle]
    /\ run = RunIdle
    /\ fetch = FetchIdle
    /\ \E doc \in AsmDocs, kind \in Kinds :
          asm = [pc |-> "ready", kind |-> kind, doc |-> Some(doc), result |-> None,
                 parsed |-> None]
    /\ upd = UpdIdle

AsmNext == AssembleStep \/ ParseIdStep

AsmSpec == AsmInit /\ [][AsmNext]_vars

(***************************************************************************)
(* The update loop next to a save function.  The games it finds are the    *)
(* ones a save function stored; the pages are those of the stored games    *)
(* scraped again by EnhancedBasketballScraper.                             *)
(***************************************************************************)
\* a box score table that has no row
EmptyTable == Table(<< >>)

\* a box score with two rows of one player name
SameNameTwice == Table(<<HeaderRow, PlayerLine("J. Tatum", "10"), PlayerLine("J. Tatum", "25"),
                         TotalsRow>>)

UpdDocs ==
    {Doc(game_id, Line(total, "101"), [home |-> basic, away |-> AbsentTable], None) :
        game_id \in {G1}, total \in {"99", "101"},
        basic \in {AbsentTable, EmptyTable, BasicFull, SameNameTwice}}
    \cup {Doc(G1, Line("101", "99"), NoTables, None)}

UpdatePayloads == {Assemble(doc, "recent")[1] : doc \in UpdDocs}

\* the worker that calls the save function on its own
Saver == CHOOSE w \in Workers : w # Runner

UpdNext ==
    \/ \E game_data \in {Bare(d) : d \in ParsedDicts} : DirectSave(Saver, game_data)
    \/ SaveCheck(Saver)
    \/ SaveGame(Saver)
    \/ SaveSubs(Saver)
    \/ \E game_data \in UpdatePayloads : UpdateGame(game_data)

UpdSpec == Init /\ [][UpdNext]_vars

(***************************************************************************)
(* Properties                                                              *)
(***************************************************************************)
\* the dict has the nested lists the assemblers put into it
IsParsed(game_data) == {"team_stats", "player_stats", "officials"} \subseteq DOMAIN game_data

GameRows(game_id) == {r \in games : r.game_id = game_id}
TeamRows(game_id) == {r \in team_game_stats : r.game_id = game_id}
PlayerRows_(game_id) == {r \in player_game_stats : r.game_id = game_id}
OfficialRows(game_id) == {r \in game_officials : r.game_id = game_id}

\* w made its calls alone: no bulk loop and no call of another worker
Alone(w) == run.pc = "idle" /\ \A v \in Workers \ {w} : sess[v].pc = "idle" /\ sess[v].calls = 0

\* C1: saving the same parsed game twice in sequence leaves exactly one
\* games row with its game_id, and the second call finds that row and
\* returns as skipped, writing nothing.
C1_SaveTwiceOneRow ==
    \A w \in Workers :
        (sess[w].pc = "idle" /\ sess[w].calls = 2 /\ sess[w].prev_same
            /\ IsParsed(sess[w].game_data[1]))
        => /\ Cardinality(GameRows(sess[w].game_data[1].game_id)) = 1
           /\ sess[w].outcome = "skipped"
           /\ sess[w].game_pk = 0 /\ sess[w].subs = 0

C4_AtMostOneGameRow ==
    \A game_id \in GameIds : Cardinality(GameRows(game_id)) <= 1

\* both workers passed the existence check for one game_id; one committed
\* its row and the other's insert failed on the unique constraint
C4_Witness ==
    \E a, b \in Workers :
        /\ a # b
        /\ sess[a].game_pk # 0
        /\ sess[b].pc = "idle" /\ sess[b].error = "IntegrityError"
        /\ sess[b].game_pk = 0
        /\ sess[a].game_data[1].game_id = sess[b].game_data[1].game_id

\* C5: the save of a parsed game record whose game_id is not in the store
\* (and that meets no storage error) creates one games row and one row for
\* each nested team-stat, player-stat and official entry.
C5_SaveCreatesAllRows ==
    \A w \in Workers :
        (sess[w].pc = "idle" /\ sess[w].calls > 0 /\ IsParsed(sess[w].game_data[1])
            /\ sess[w].outcome # "skipped"
            /\ sess[w].error \notin {"OperationalError", "IntegrityError"})
        => LET game_data == sess[w].game_data[1]
           IN /\ sess[w].outcome = "saved"
              /\ Cardinality(GameRows(game_data.game_id)) = 1
              /\ Cardinality(TeamRows(game_data.game_id)) = Len(game_data.team_stats)
              /\ Cardinality(PlayerRows_(game_data.game_id)) = Len(game_data.player_stats)
              /\ Cardinality(OfficialRows(game_data.game_id)) = Len(game_data.officials)

\* the number of attempts the call may make: max_retries as the loop uses
\* it, that is the argument, or settings.MAX_RETRIES when the argument is
\* None or 0
AttemptLimit == IF fetch.arg = None \/ fetch.arg[1] = 0 THEN MAX_RETRIES ELSE fetch.arg[1]

C6_Bounded ==
    /\ fetch.attempts <= AttemptLimit
    /\ fetch.last = "ok" => fetch.pc = "returned" /\ fetch.result # None
    /\ (fetch.pc = "returned" /\ fetch.result # None) => fetch.last = "ok"
    /\ (fetch.pc \in {"running", "returned"} /\ fetch.last \in {"timeout", "error"}
           /\ fetch.attempts < AttemptLimit) => fetch.pc = "running"
    /\ (fetch.pc = "returned" /\ fetch.result = None) => fetch.attempts = AttemptLimit

\* C6: get_html_with_retry terminates; it makes at most max_retries
\* attempts, returns the markup at the first successful attempt without a
\* further attempt, and after a timeout as after any other error it goes on
\* to the next attempt as long as attempts are left.
C6_FetchTerminates ==
    /\ []C6_Bounded
    /\ (fetch.pc = "running") ~> (fetch.pc = "returned")

\* the call returned the markup at its third attempt, after two attempts
\* that failed, each followed by its backoff sleep
C6_Witness ==
    /\ fetch.pc = "returned" /\ fetch.result # None
    /\ fetch.attempts = 3
    /\ Len(fetch.backoffs) = 2

\* C7 as stated: when every attempt fails, the fetch yields a failure value
\* that carries the URL and the class of the last error.
C7_FailureValueCarriesUrlAndError ==
    (fetch.pc \in {"returned", "raised"} /\ fetch.last \in {"timeout", "error"})
    => /\ fetch.pc = "returned"
       /\ fetch.result # None
       /\ fetch.result[1].url = fetch.url[1]
       /\ fetch.result[1].error = fetch.last

\* C7 amended: when every attempt fails, the fetch does not raise to its
\* caller but returns None, whatever the URL and the class of the error.
C7_FailureReturnsNone ==
    (fetch.pc # "running" /\ fetch.last \in {"timeout", "error"})
    => /\ fetch.pc = "returned"
       /\ fetch.result = None

\* every attempt failed, the last one on an error other than a timeout
C7_Witness ==
    /\ fetch.pc = "returned" /\ fetch.result = None
    /\ fetch.attempts = fetch.max_retries
    /\ fetch.last = "error"

\* the counts a bulk loop reports in its log lines
ReportedIngested == IF run.kind = "files" THEN run.processed_count ELSE run.total_games
ReportedFailed == run.error_count

\* C8: a bulk run goes through every unit whatever fails, and its report
\* tells the ingested units from the skipped duplicates and from the failed
\* units.
C8_RunReportsSeparateCounts ==
    run.pc = "done"
    => /\ run.saved + run.skipped + run.failed + run.no_fetch + run.no_parse
             = Len(run.units)
       /\ ReportedIngested = run.saved
       /\ ReportedFailed = run.failed + run.no_fetch + run.no_parse

\* C9: a failed save is visible to the bulk loop: the game is not counted
\* as processed and it is counted as an error.
C9_FailedSaveCounted ==
    run.pc \in {"unit", "done"}
    => /\ run.processed_count + run.total_games <= run.saved + run.skipped
       /\ run.failed > 0 => run.error_count > 0

\* the line score has exactly two team rows, both with an integer total
TwoIntRows(line_score) ==
    /\ line_score.present
    /\ Len(Rest(line_score.rows)) = 2
    /\ \A i \in 1..2 :
          LET cells == Rest(line_score.rows)[i].cells
          IN Len(cells) >= 2 /\ IsIntText(cells[Len(cells)])

\* C10: for a line score with exactly two team rows and integer totals the
\* game record has the first row as away and the second as home, home_won
\* equal to home_score > away_score, and is not a tie.
C10_HomeWonAndNoTie ==
    (asm.pc = "done" /\ asm.result # None /\ TwoIntRows(asm.doc[1].line_score))
    => LET g == asm.result[1]
           rows == Rest(asm.doc[1].line_score.rows)
       IN /\ g.away_team = rows[1].cells[1]
          /\ g.home_team = rows[2].cells[1]
          /\ g.away_score = IntOf[rows[1].cells[Len(rows[1].cells)]]
          /\ g.home_score = IntOf[rows[2].cells[Len(rows[2].cells)]]
          /\ g.home_won = (g.home_score > g.away_score)
          /\ g.home_score # g.away_score

\* the calendar date written in the first eight characters of a game id
DigitsDate(game_id) == <<Num(game_id, 1, 4), Num(game_id, 5, 6), Num(game_id, 7, 8)>>

\* C11: in every assembler the season of the game record is the year of
\* the date embedded in the game id, minus one when its month is before
\* July.
C11_SeasonFromIdDate ==
    (asm.pc = "done" /\ asm.result # None /\ asm.doc[1].game_id \in GameIds)
    => LET date == DigitsDate(asm.doc[1].game_id)
       IN asm.result[1].season = date[1] - (IF date[2] < 7 THEN 1 ELSE 0)

\* C12 as stated: parsing a game id of the fixed format yields the date of
\* its first eight digits and the 3-letter venue code.
C12_IdYieldsDateAndVenue ==
    (asm.pc = "id_parsed" /\ asm.doc[1].game_id \in GameIds)
    => LET parsed == asm.parsed[1]
       IN /\ parsed.date = Some(DigitsDate(asm.doc[1].game_id))
          /\ "venue" \in DOMAIN parsed
          /\ parsed.venue = SubSeq(asm.doc[1].game_id, 10, 12)

\* C12 amended: parsing a game id of the fixed format yields the date of
\* its first eight digits; the venue code is not split off, parse_game_id
\* returns the twelve characters whole, the three letters included.
C12_IdYieldsDateAndWholeId ==
    (asm.pc = "id_parsed" /\ asm.doc[1].game_id \in GameIds)
    => LET parsed == asm.parsed[1]
       IN /\ parsed.date = Some(DigitsDate(asm.doc[1].game_id))
          /\ parsed.game_id = asm.doc[1].game_id
          /\ DOMAIN parsed = {"game_id", "date"}

\* "202310240BOS" was parsed: 2023-10-24, and the id ends in B, O, S
C12_Witness ==
    /\ asm.pc = "id_parsed"
    /\ asm.doc[1].game_id = G1
    /\ asm.parsed[1].date = Some(<<2023, 10, 24>>)
    /\ SubSeq(asm.parsed[1].game_id, 10, 12) = <<"B", "O", "S">>

\* the document as the parsers of the assembler see it
Soup == IF asm.kind = "files" THEN DecomposeDoc(asm.doc[1]) ELSE asm.doc[1]

\* the player rows of a table: all rows but the header and the totals row
PlayerRowsOf(table) == Middle(table.rows)

\* the integer a cell text stands for, 0 for a text that is no integer
IntValue(cells, j) == IF Len(cells) > j /\ IsIntText(cells[j + 1]) THEN IntOf[cells[j + 1]] ELSE 0

\* the greatest value of the column at offset j over the player rows
ColumnMax(table, j) ==
    LET vals == {IntValue(PlayerRowsOf(table)[i].cells, j) : i \in 1..Len(PlayerRowsOf(table))}
                  \cup {0}
    IN CHOOSE m \in vals : \A v \in vals : v <= m

\* offsets of the counting stats of the basic schema (MP is a clock text)
CountingOffsets == {j \in 2..Len(BasicMapping) : ~HasPct(BasicMapping[j])}

\* C13: the _max field of each counting stat of a team-stat record is the
\* maximum of that stat over the player rows of the side's basic table
\* (player rows with pts 10, 25 and 8 give pts_max = 25).
C13_MaxOverPlayerRows ==
    (asm.pc = "done" /\ asm.result # None)
    => \A i \in 1..Len(asm.result[1].team_stats) :
          LET team_stat == asm.result[1].team_stats[i]
              table == Soup.basic[team_stat.team]
          IN PlayerRowsOf(table) # << >>
             => \A j \in CountingOffsets :
                   /\ BasicMaxNames[j] \in DOMAIN team_stat
                   /\ team_stat[BasicMaxNames[j]] = ColumnMax(table, j)

\* the rows of a side that stand for a player
Eligible(table) ==
    IF ~table.present THEN << >>
    ELSE SelectSeq(PlayerRowsOf(table),
                   LAMBDA r : Len(r.cells) >= 10
                              /\ r.cells[1] \notin {"", "Reserves", "Team Totals"})

EligibleOf(doc) ==
    [i \in 1..Len(Eligible(doc.basic["home"])) |->
        [team |-> "home", cells |-> Eligible(doc.basic["home"])[i].cells]]
    \o
    [i \in 1..Len(Eligible(doc.basic["away"])) |->
        [team |-> "away", cells |-> Eligible(doc.basic["away"])[i].cells]]

\* the player-stat records are the eligible rows, in document order
OneRecordPerEligibleRow ==
    LET player_stats == asm.result[1].player_stats
        expected == EligibleOf(asm.doc[1])
    IN /\ Len(player_stats) = Len(expected)
       /\ \A i \in 1..Len(expected) :
             /\ player_stats[i].team = expected[i].team
             /\ player_stats[i].player_name = expected[i].cells[1]
             /\ player_stats[i].mp = expected[i].cells[2]

TotalsMapped(team_stat, table, stat_type) ==
    LET cells == table.rows[Len(table.rows)].cells
        mapping == IF stat_type = "basic" THEN BasicMapping ELSE AdvancedMapping
    IN \A i \in 1..Len(mapping) :
          (Len(cells) > i /\ IsFloatText(cells[i + 1]))
          => /\ mapping[i] \in DOMAIN team_stat
             /\ team_stat[mapping[i]] =
                  IF stat_type = "basic" /\ ~HasPct(mapping[i])
                  THEN IntValue(cells, i) ELSE FloatOf(cells[i + 1])

\* C15: a side with a basic table and no advanced table gets exactly one
\* team-stat record, whose basic fields have the numbers of the totals row
\* and whose advanced fields, where it has them, are 0.0.
C15_NoAdvancedTableStillOneRecord ==
    (asm.pc = "done" /\ asm.result # None)
    => \A i \in 1..Len(Sides) :
          LET team == Sides[i]
              records == {k \in 1..Len(asm.result[1].team_stats) :
                             asm.result[1].team_stats[k].team = team}
          IN (Soup.basic[team].present /\ ~Soup.advanced[team].present)
             => /\ Cardinality(records) = 1
                /\ \A k \in records :
                      LET team_stat == asm.result[1].team_stats[k]
                      IN /\ TotalsMapped(team_stat, Soup.basic[team], "basic")
                         /\ \A a \in 1..Len(AdvancedMapping) :
                               AdvancedMapping[a] \in DOMAIN team_stat
                               => team_stat[AdvancedMapping[a]] = 0

\* C17: each named field of a team-stat record has the number of the cell
\* at its 1-based offset in the last row of the table, an integer for the
\* counting stats and a float for the 'pct' and the advanced fields; the
\* label at offset 0 is no field.
C17_TotalsRowMapped ==
    (asm.pc = "done" /\ asm.result # None)
    => \A k \in 1..Len(asm.result[1].team_stats) :
          LET team_stat == asm.result[1].team_stats[k]
              team == team_stat.team
          IN /\ TotalsMapped(team_stat, Soup.basic[team], "basic")
             /\ Soup.advanced[team].present
                => TotalsMapped(team_stat, Soup.advanced[team], "advanced")
             /\ DOMAIN team_stat \subseteq
                  ({"game_id", "team", "is_home"} \cup SeqToSet(BasicMapping)
                     \cup SeqToSet(BasicMaxNames) \cup SeqToSet(AdvancedMapping))

\* C18: in the three assemblers alike, the player-stat records are the
\* eligible rows of the sides that have a basic table, one record a row,
\* in document order, with the minutes as the text of the cell.
C18_OnePlayerRecordPerRow ==
    (asm.pc = "done" /\ asm.result # None) => OneRecordPerEligibleRow

\* the position of a statement among those the latest iteration ran
StepAt(name) == CHOOSE i \in 1..Len(fetch.steps) : fetch.steps[i] = name

\* the statement that waits for the selector, or takes the whole document
SelectorStep == IF fetch.selector = "body" THEN "content" ELSE "wait_for_selector"

\* C19: in an attempt that returns the markup, the throttle slot is taken
\* before the navigation starts, the navigation is over before the selector
\* is awaited (or the whole document taken), and the settle delay comes
\* after the selector and before the return.
C19_StepsInOrder ==
    (fetch.pc = "returned" /\ fetch.last = "ok")
    => /\ {"throttle", "goto", SelectorStep, "sleep", "return"} \subseteq SeqToSet(fetch.steps)
       /\ StepAt("throttle") < StepAt("goto")
       /\ StepAt("goto") < StepAt(SelectorStep)
       /\ StepAt(SelectorStep) < StepAt("sleep")
       /\ StepAt("sleep") < StepAt("return")

\* C20: the k-th failed attempt that is followed by another attempt is
\* followed by a wait of REQUEST_DELAY times k, and the attempt the call
\* returns at, the last failed one included, is followed by no wait.
C20_LinearBackoff ==
    /\ \A k \in 1..Len(fetch.backoffs) : fetch.backoffs[k] = REQUEST_DELAY * k
    /\ fetch.pc = "running" => Len(fetch.backoffs) = fetch.attempts
    /\ fetch.pc = "returned" => Len(fetch.backoffs) = fetch.attempts - 1

\* three attempts failed: waits of 1 and 2 delays, none after the third
C20_Witness ==
    /\ fetch.pc = "returned" /\ fetch.result = None
    /\ fetch.attempts = 3
    /\ fetch.last \in {"timeout", "error"}
    /\ fetch.backoffs = <<REQUEST_DELAY, 2 * REQUEST_DELAY>>

\* an iteration of the update loop has run in this step
UpdateRan == upd' # upd

\* the dicts of the payload's list name that have the sub-key of row
InPayload(game_data, name, row, keys) ==
    {i \in 1..Len(Get(game_data, name)) :
        /\ row.game_id = game_data.game_id
        /\ \A k \in keys : Get(game_data, name)[i][k] = row[k]}

\* every row of table is still in after, by id; a row whose sub-key is
\* not in the payload is the same, and a row whose sub-key is in it differs
\* at most at the keys of the payload's dicts
SubRowsKept(table, after, game_data, name, keys) ==
    \A row \in table :
        \E kept \in after :
            /\ kept.id = row.id
            /\ InPayload(game_data, name, row, keys) = {} => kept = row
            /\ \A k \in DOMAIN row :
                  kept[k] # row[k]
                    => \E i \in InPayload(game_data, name, row, keys) :
                          k \in DOMAIN Get(game_data, name)[i]

\* C16: an update of a stored game deletes no row, leaves every team-stat,
\* player-stat and official row whose sub-key is not in the payload as it
\* was, changes the other rows only at fields of the payload, and changes
\* on the games rows nothing but home_score, away_score and home_won.
C16_UpdateFrame ==
    [][UpdateRan =>
         LET game_data == upd'.game_data[1]
         IN /\ SubRowsKept(team_game_stats, team_game_stats', game_data, "team_stats",
                           {"team"})
            /\ SubRowsKept(player_game_stats, player_game_stats', game_data, "player_stats",
                           {"player_name", "team"})
            /\ SubRowsKept(game_officials, game_officials', game_data, "officials",
                           {"official_name"})
            /\ \A game \in games :
                  \E kept \in games' :
                     /\ kept.id = game.id
                     /\ \A k \in DOMAIN game \ {"home_score", "away_score", "home_won"} :
                           kept[k] = game[k]
                     /\ game.game_id # game_data.game_id => kept = game]_vars

\* an update went through on a game that has a player row, with a payload
\* that has no player of that game: the scores of the games row are the
\* payload's and the player row is still stored
C16_Witness ==
    /\ upd.outcome = "updated"
    /\ Get(upd.game_data[1], "player_stats") = << >>
    /\ \E row \in player_game_stats : row.game_id = upd.game_data[1].game_id
    /\ \E row \in team_game_stats : row.game_id = upd.game_data[1].game_id
    /\ \E game \in games :
          /\ game.game_id = upd.game_data[1].game_id
          /\ game.home_score = upd.game_data[1].home_score
          /\ game.away_score = upd.game_data[1].away_score
          /\ game.home_score + game.away_score = 202

\* the rows of the line score after its header row, as the assembler reads
\* them, and those of them that name a team: the rows of two cells or more
DataRows == Rest(Soup.line_score.rows)
TeamLines == SelectSeq(DataRows, LAMBDA r : Len(r.cells) >= 2)

\* the line score is unusable: absent, fewer than two data rows, a number
\* of teams other than two, or a total that is not an integer
LineScoreUnusable ==
    \/ ~Soup.line_score.present
    \/ Len(DataRows) < 2
    \/ Len(TeamLines) # 2
    \/ \E i \in 1..Len(TeamLines) :
          ~IsIntText(TeamLines[i].cells[Len(TeamLines[i].cells)])

\* C21: an assembler returns None for a document whose line-score table is
\* absent, has fewer than two data rows, names a number of teams other than
\* two or has a total cell that is not an integer.
C21_UnusableLineScoreGivesNone ==
    (asm.pc = "done" /\ LineScoreUnusable) => asm.result = None

\* a document with a well-formed id whose line score has three team rows,
\* or a total that is not a number, was assembled
C21_Witness ==
    /\ asm.pc = "done"
    /\ asm.doc[1].game_id \in GameIds
    /\ asm.doc[1].line_score.present
    /\ Len(DataRows) >= 2
    /\ \/ Len(TeamLines) = 3
       \/ \E i \in 1..Len(TeamLines) : TeamLines[i].cells[Len(TeamLines[i].cells)] = "x"
    /\ asm.result = None

\* the number of basic box score tables of the document
BasicTables == Cardinality({t \in {"home", "away"} : Soup.basic[t].present})

\* the number of official links that are read: at most three
OfficialsRead ==
    IF Soup.officials = None THEN 0
    ELSE IF Len(Soup.officials[1]) < 3 THEN Len(Soup.officials[1]) ELSE 3

\* a statement of _parse_player_row raised: the NameError of DataProcessor
\* on a row that passed the two checks
PlayerRowRaised == asm.kind = "files" /\ EligibleOf(Soup) # << >>

\* C22: once the basic game info is built, the record is returned with its
\* line-score fields whatever happens in the three sections: an exception
\* of a player row empties or shortens player_stats only, team_stats still
\* has a record per basic table and officials a record per link read.
C22_SectionErrorsKeepGame ==
    (asm.pc = "done" /\ ParseBasicGameInfo(Soup, asm.kind) # None)
    => /\ asm.result # None
       /\ \A k \in DOMAIN ParseBasicGameInfo(Soup, asm.kind)[1] :
             asm.result[1][k] = ParseBasicGameInfo(Soup, asm.kind)[1][k]
       /\ Len(asm.result[1].team_stats) = BasicTables
       /\ Len(asm.result[1].officials) = OfficialsRead
       /\ Len(asm.result[1].player_stats) <= Len(EligibleOf(Soup))
       /\ PlayerRowRaised => asm.result[1].player_stats = << >>

\* the player rows of a document raised, and the record was returned with
\* a team-stat record and an official
C22_Witness ==
    /\ asm.pc = "done"
    /\ PlayerRowRaised
    /\ asm.result # None
    /\ asm.result[1].player_stats = << >>
    /\ Len(asm.result[1].team_stats) = 2
    /\ Len(asm.result[1].officials) = 1
    /\ asm.result[1].home_score = 101

\* the rows at the player positions of a table once its decorative rows
\* are removed
StablePlayerRows(table) == Middle(Decompose(table).rows)

\* C23: the decorative rows are removed before a table is read, so every
\* player-stat record stands for a row at a player position of the table
\* without its decorative rows.
C23_DecorativeRowsRemoved ==
    (asm.pc = "done" /\ asm.result # None)
    => \A i \in 1..Len(asm.result[1].player_stats) :
          LET player_stat == asm.result[1].player_stats[i]
              rows == StablePlayerRows(asm.doc[1].basic[player_stat.team])
          IN \E j \in 1..Len(rows) : rows[j].cells[1] = player_stat.player_name

\* C24: the officials of a game record are at most three, one for each of
\* the first three links after the 'Officials:' marker in document order,
\* with positions 1..n; without the marker the list is empty.
C24_OfficialsFirstThreeLinks ==
    (asm.pc = "done" /\ asm.result # None)
    => LET officials == asm.result[1].officials
           marker == asm.doc[1].officials
       IN /\ Len(officials) <= 3
          /\ marker = None => officials = << >>
          /\ marker # None =>
                /\ Len(officials) = (IF Len(marker[1]) < 3 THEN Len(marker[1]) ELSE 3)
                /\ \A i \in 1..Len(officials) :
                      /\ officials[i].position = i
                      /\ officials[i].official_name = marker[1][i].name
                      /\ officials[i].official_url = marker[1][i].href

\* a document with more than three links after the marker gave three
\* officials
C24_Witness ==
    /\ asm.pc = "done"
    /\ asm.result # None
    /\ asm.doc[1].officials # None
    /\ Len(asm.doc[1].officials[1]) > 3
    /\ Len(asm.result[1].officials) = 3
    /\ asm.result[1].officials[3].position = 3

C26_NoDuplicateSubRows ==
    /\ TeamUnique(team_game_stats)
    /\ \A r1, r2 \in team_game_stats : r1.id = r2.id => r1 = r2
    /\ PlayerUnique(player_game_stats)
    /\ \A r1, r2 \in player_game_stats : r1.id = r2.id => r1 = r2

\* an update whose payload names a player twice was refused by the flush:
\* the game has its team row and no player row
C26_Witness ==
    /\ upd.outcome = "failed"
    /\ upd.error = "IntegrityError"
    /\ Len(Get(upd.game_data[1], "player_stats")) = 2
    /\ \E row \in team_game_stats : row.game_id = upd.game_data[1].game_id
    /\ \A row \in player_game_stats : row.game_id # upd.game_data[1].game_id

\* C27: every stored games row has home_won equal to home_score >
\* away_score, after any sequence of saves and updates.
C27_HomeWonMatchesScores ==
    \A game \in games : game.home_won = (game.home_score > game.away_score)

\* an update replaced the scores of a game the home team had won by scores
\* it did not win with, and the flag followed
C27_Witness ==
    /\ upd.outcome = "updated"
    /\ \E game \in games :
          /\ game.game_id = upd.game_data[1].game_id
          /\ game.home_score = 101
          /\ game.away_score = 101
          /\ game.home_won = FALSE

\* the stored games rows of the game of a payload
StoredGames(game_data) == {game \in games : game.game_id = game_data.game_id}

\* C28: an iteration of the update loop selects the game exactly when it is
\* not stored or the sum of the payload's two scores differs from the
\* stored sum; a game that is not selected is not counted and nothing of
\* the store changes, even when its two scores differ from the stored ones.
C28_SelectedBySumOfScores ==
    [][UpdateRan =>
         LET game_data == upd'.game_data[1]
             selected == upd'.outcome # "not_needed"
         IN /\ selected <=>
                  \/ StoredGames(game_data) = {}
                  \/ \E game \in StoredGames(game_data) :
                        game.home_score + game.away_score
                          # game_data.home_score + game_data.away_score
            /\ ~selected => /\ store' = store
                            /\ upd'.updated_count = upd.updated_count]_vars

\* the page of a stored game came back with the two scores swapped, and
\* the game was not selected: the stored scores are the old ones
C28_Witness ==
    /\ upd.outcome = "not_needed"
    /\ \E game \in StoredGames(upd.game_data[1]) :
          /\ game.home_score = upd.game_data[1].away_score
          /\ game.away_score = upd.game_data[1].home_score
          /\ game.home_score # game.away_score

C30_ZeroRetriesMeansDefault ==
    (fetch.pc # "idle" /\ fetch.arg \in {None, Some(0)})
    => /\ fetch.max_retries = MAX_RETRIES
       /\ fetch.pc = "returned" => fetch.attempts >= 1
       /\ (fetch.pc = "returned" /\ fetch.result = None) => fetch.attempts = MAX_RETRIES

\* a call with max_retries 0 gave up after settings.MAX_RETRIES attempts
C30_Witness ==
    /\ fetch.pc = "returned"
    /\ fetch.arg = Some(0)
    /\ fetch.result = None
    /\ fetch.attempts = MAX_RETRIES
=============================================================================
